---- MODULE Spec2Model ----
(***************************************************************************)
(* PlantDiagnosisEngine (src/Downloads/plant_test-main/src/diagnosis-      *)
(* engine.js) as a state machine: the engine is constructed from a         *)
(* knowledge base and a configuration, serves diagnose calls and addPlant  *)
(* calls.  The interaction Logger (src/unnamed/part_002) is constructed    *)
(* from a logging configuration and serves logInteraction and getLogStats  *)
(* calls.  A JavaScript string is a sequence of one-character strings; a   *)
(* JavaScript number that is not an integer is an exact fraction           *)
(* [n |-> numerator, d |-> denominator] with d > 0.                        *)
(***************************************************************************)
EXTENDS Integers, Sequences, FiniteSets, TLC

VARIABLES phase, plantsFile, config, plants, fuse, clock, adds, call, prev,
          logger, logFile, logged, stats

\* the engine, its knowledge-base file and the call at hand
engineVars == <<phase, plantsFile, config, plants, fuse, clock, adds, call, prev>>

\* the interaction logger (src/unnamed/part_002), today's log file, the
\* number of logInteraction calls made and the statistics last asked for
loggerVars == <<logger, logFile, logged, stats>>

vars == <<phase, plantsFile, config, plants, fuse, clock, adds, call, prev,
          logger, logFile, logged, stats>>

None == [kind |-> "none"]

(***************************************************************************)
(* Strings                                                                 *)
(***************************************************************************)
UpperChars ==
  <<"A","B","C","D","E","F","G","H","I","J","K","L","M",
    "N","O","P","Q","R","S","T","U","V","W","X","Y","Z">>

LowerChars ==
  <<"a","b","c","d","e","f","g","h","i","j","k","l","m",
    "n","o","p","q","r","s","t","u","v","w","x","y","z">>

\* String.prototype.toLowerCase on one character
lowerChar(c) ==
  IF \E i \in DOMAIN UpperChars : UpperChars[i] = c
  THEN LowerChars[CHOOSE i \in DOMAIN UpperChars : UpperChars[i] = c]
  ELSE c

\* String.prototype.toLowerCase
toLowerCase(s) == [i \in DOMAIN s |-> lowerChar(s[i])]

\* the characters matched by the regular expression \s and removed by trim
isSpace(c) == c \in {" ", "\t"}

\* String.prototype.includes
includes(s, sub) ==
  \E i \in 0..(Len(s) - Len(sub)) : SubSeq(s, i + 1, i + Len(sub)) = sub

\* String.prototype.substring(0, n)
substring(s, n) == SubSeq(s, 1, IF n < Len(s) THEN n ELSE Len(s))

\* String.prototype.trim
trim(s) ==
  LET keep == {i \in DOMAIN s : ~isSpace(s[i])}
  IN  IF keep = {} THEN <<>>
      ELSE SubSeq(s, CHOOSE i \in keep : \A j \in keep : i <= j,
                     CHOOSE i \in keep : \A j \in keep : j <= i)

\* the pieces of s between the separator positions seps (ascending)
RECURSIVE pieces(_, _, _)
pieces(s, from, seps) ==
  IF seps = <<>> THEN <<SubSeq(s, from, Len(s))>>
  ELSE <<SubSeq(s, from, seps[1][1] - 1)>> \o pieces(s, seps[1][2] + 1, Tail(seps))

\* the maximal runs <<first, last>> of whitespace of s, from position i
RECURSIVE runs(_, _)
runs(s, i) ==
  IF i > Len(s) THEN <<>>
  ELSE IF ~isSpace(s[i]) THEN runs(s, i + 1)
  ELSE LET after == {j \in i..Len(s) : \A k \in i..j : isSpace(s[k])}
           last == CHOOSE j \in after : \A k \in after : k <= j
       IN  <<<<i, last>>>> \o runs(s, last + 1)

\* String.prototype.split(/\s+/)
splitWhitespace(s) == pieces(s, 1, runs(s, 1))

\* String.prototype.split(' ')
splitSpace(s) ==
  pieces(s, 1, [k \in 1..Cardinality({i \in DOMAIN s : s[i] = " "}) |->
                  LET at == CHOOSE i \in DOMAIN s :
                              /\ s[i] = " "
                              /\ Cardinality({j \in 1..i : s[j] = " "}) = k
                  IN  <<at, at>>])

\* the concatenation of a sequence of strings
RECURSIVE concat(_)
concat(ss) == IF ss = <<>> THEN <<>> ELSE Head(ss) \o concat(Tail(ss))

\* the elements of an array, as a set
elements(xs) == {xs[i] : i \in DOMAIN xs}

\* [...new Set(xs)]: first occurrences, in order
RECURSIVE unique(_)
unique(xs) ==
  IF xs = <<>> THEN <<>>
  ELSE LET front == unique(SubSeq(xs, 1, Len(xs) - 1))
           last == xs[Len(xs)]
       IN  IF last \in elements(front) THEN front ELSE Append(front, last)

(***************************************************************************)
(* Numbers                                                                 *)
(***************************************************************************)
RECURSIVE gcd(_, _)
gcd(a, b) == IF b = 0 THEN a ELSE gcd(b, a % b)

\* the fraction n/d in lowest terms (n >= 0, d > 0)
Frac(n, d) == LET g == gcd(n, d) IN [n |-> n \div g, d |-> d \div g]
Tenths(n) == Frac(n, 10)
fAdd(a, b) == Frac(a.n * b.d + b.n * a.d, a.d * b.d)
fMul(a, b) == Frac(a.n * b.n, a.d * b.d)
fLe(a, b) == a.n * b.d <= b.n * a.d
fLt(a, b) == a.n * b.d < b.n * a.d
fEq(a, b) == a.n * b.d = b.n * a.d
\* Math.min, Math.max
fMin(a, b) == IF fLe(a, b) THEN a ELSE b
fMax(a, b) == IF fLe(b, a) THEN a ELSE b
One == Frac(1, 1)
Zero == Frac(0, 1)

(***************************************************************************)
(* detectPlant                                                             *)
(***************************************************************************)
\* what Array.prototype.find returns when no element satisfies the test
Undefined == [kind |-> "undefined"]

\* every word of the name (alias) equals, or is contained in, some input word
wordsMatch(nameWords, words) ==
  \A w \in elements(nameWords) :
    \E word \in elements(words) : word = w \/ includes(word, w)

\* the name test of detectPlant for one plant
plantNameMatch(plant, words) ==
  LET plantWords == splitWhitespace(toLowerCase(plant.name))
  IN  wordsMatch(plantWords, words) /\ Len(plantWords) > 0

\* the alias test of detectPlant for one alias
aliasMatch(alias, text, words) ==
  LET aliasLower == toLowerCase(alias)
  IN  /\ Len(aliasLower) > 2
      /\ includes(text, aliasLower)
      /\ wordsMatch(splitWhitespace(aliasLower), words)

\* the least element of a non-empty set of integers
least(S) == CHOOSE i \in S : \A j \in S : i <= j

\* Fuse's distance of a pattern to one indexed string: the least share of the
\* pattern's characters that differ from the string, over every alignment
fuseDistance(key, pattern) ==
  LET m == Len(pattern)
      n == Len(key)
      errors(o) == Cardinality({i \in 1..m :
                      \/ o + i < 1 \/ o + i > n
                      \/ key[o + i] # pattern[i]})
      best == least({errors(o) : o \in (0 - m)..n})
  IN  IF m = 0 THEN One ELSE Frac(best, m)

\* new Fuse(this.plants, searchOptions): the index holds the searched keys of
\* the plants it was built from
initializeFuzzySearch(ps, cfg) ==
  [docs |-> ps,
   keys |-> [i \in DOMAIN ps |->
               <<toLowerCase(ps[i].name)>> \o
               [k \in DOMAIN ps[i].aliases |-> toLowerCase(ps[i].aliases[k])]],
   threshold |-> cfg.fuzzyThreshold,
   minMatchCharLength |-> 2]

\* Fuse.search: the indexed plants within the threshold, best (least distance,
\* then earliest) first
fuseSearch(index, inputText) ==
  LET pattern == toLowerCase(inputText)
      score(i) == LET ds == {fuseDistance(index.keys[i][k], pattern) :
                               k \in DOMAIN index.keys[i]}
                  IN  CHOOSE d \in ds : \A e \in ds : fLe(d, e)
      hits == {i \in DOMAIN index.docs :
                 /\ Len(pattern) >= index.minMatchCharLength
                 /\ fLe(score(i), index.threshold)}
      before(i, j) == \/ fLt(score(i), score(j))
                      \/ fEq(score(i), score(j)) /\ i < j
      rank(i) == Cardinality({j \in hits : before(j, i)}) + 1
  IN  [r \in 1..Cardinality(hits) |->
         LET i == CHOOSE h \in hits : rank(h) = r
         IN  [item |-> index.docs[i], score |-> score(i)]]

\* this.plants.find(p => p.id === 'generic')
findGeneric(ps) ==
  LET at == {i \in DOMAIN ps : ps[i].id = "generic"}
  IN  IF at = {} THEN Undefined ELSE ps[least(at)]

\* detectPlant with the alias loop before the name loop
detectPlantAliasFirst(ps, index, cfg, inputText) ==
  LET text == toLowerCase(inputText)
      words == splitWhitespace(text)
      byName == {i \in DOMAIN ps : plantNameMatch(ps[i], words)}
      byAlias == {i \in DOMAIN ps :
                    \E k \in DOMAIN ps[i].aliases :
                      aliasMatch(ps[i].aliases[k], text, words)}
  IN  IF byAlias # {}
      THEN [plant |-> ps[least(byAlias)], score |-> Tenths(9),
            method |-> "alias_match"]
      ELSE IF byName # {}
      THEN [plant |-> ps[least(byName)], score |-> One,
            method |-> "plant_name_match"]
      ELSE LET fuzzyResults == fuseSearch(index, inputText)
           IN  IF Len(fuzzyResults) > 0
                  /\ fLt(fuzzyResults[1].score, cfg.fuzzyThreshold)
               THEN [plant |-> fuzzyResults[1].item,
                     score |-> Frac(fuzzyResults[1].score.d - fuzzyResults[1].score.n,
                                    fuzzyResults[1].score.d),
                     method |-> "fuzzy_match"]
               ELSE [plant |-> findGeneric(ps), score |-> Tenths(1),
                     method |-> "generic_fallback"]

\* the greatest element of a non-empty set of integers
greatest(S) == CHOOSE i \in S : \A j \in S : j <= i

\* detectPlant with loops that do not stop at the first passing plant
detectPlantLastWins(ps, index, cfg, inputText) ==
  LET text == toLowerCase(inputText)
      words == splitWhitespace(text)
      byName == {i \in DOMAIN ps : plantNameMatch(ps[i], words)}
      byAlias == {i \in DOMAIN ps :
                    \E k \in DOMAIN ps[i].aliases :
                      aliasMatch(ps[i].aliases[k], text, words)}
  IN  IF byName # {}
      THEN [plant |-> ps[greatest(byName)], score |-> One,
            method |-> "plant_name_match"]
      ELSE IF byAlias # {}
      THEN [plant |-> ps[greatest(byAlias)], score |-> Tenths(9),
            method |-> "alias_match"]
      ELSE LET fuzzyResults == fuseSearch(index, inputText)
           IN  IF Len(fuzzyResults) > 0
                  /\ fLt(fuzzyResults[1].score, cfg.fuzzyThreshold)
               THEN [plant |-> fuzzyResults[1].item,
                     score |-> Frac(fuzzyResults[1].score.d - fuzzyResults[1].score.n,
                                    fuzzyResults[1].score.d),
                     method |-> "fuzzy_match"]
               ELSE [plant |-> findGeneric(ps), score |-> Tenths(1),
                     method |-> "generic_fallback"]

detectPlant(ps, index, cfg, inputText) ==
  LET text == toLowerCase(inputText)
      words == splitWhitespace(text)
      byName == {i \in DOMAIN ps : plantNameMatch(ps[i], words)}
      byAlias == {i \in DOMAIN ps :
                    \E k \in DOMAIN ps[i].aliases :
                      aliasMatch(ps[i].aliases[k], text, words)}
  IN  IF byName # {}
      THEN [plant |-> ps[least(byName)], score |-> One,
            method |-> "plant_name_match"]
      ELSE IF byAlias # {}
      THEN [plant |-> ps[least(byAlias)], score |-> Tenths(9),
            method |-> "alias_match"]
      ELSE LET fuzzyResults == fuseSearch(index, inputText)
           IN  IF Len(fuzzyResults) > 0
                  /\ fLt(fuzzyResults[1].score, cfg.fuzzyThreshold)
               THEN [plant |-> fuzzyResults[1].item,
                     score |-> Frac(fuzzyResults[1].score.d - fuzzyResults[1].score.n,
                                    fuzzyResults[1].score.d),
                     method |-> "fuzzy_match"]
               ELSE [plant |-> findGeneric(ps), score |-> Tenths(1),
                     method |-> "generic_fallback"]

(***************************************************************************)
(* extractSymptoms                                                         *)
(***************************************************************************)
semanticGroups ==
  << \* color_problems
     << <<"y","e","l","l","o","w">>,
        <<"b","r","o","w","n">>,
        <<"b","l","a","c","k">>,
        <<"w","h","i","t","e">>,
        <<"p","a","l","e">>,
        <<"f","a","d","e","d">>,
        <<"d","i","s","c","o","l","o","r","e","d">> >>,
     \* texture_problems
     << <<"c","r","i","s","p","y">>,
        <<"m","u","s","h","y">>,
        <<"s","o","f","t">>,
        <<"h","a","r","d">>,
        <<"r","o","u","g","h">>,
        <<"s","m","o","o","t","h">>,
        <<"s","t","i","c","k","y">> >>,
     \* shape_problems
     << <<"d","r","o","o","p","i","n","g">>,
        <<"w","i","l","t","i","n","g">>,
        <<"c","u","r","l","e","d">>,
        <<"t","w","i","s","t","e","d">>,
        <<"d","e","f","o","r","m","e","d">>,
        <<"s","t","u","n","t","e","d">> >>,
     \* growth_problems
     << <<"n","o","t"," ","g","r","o","w","i","n","g">>,
        <<"s","l","o","w"," ","g","r","o","w","t","h">>,
        <<"s","m","a","l","l">>,
        <<"t","i","n","y">>,
        <<"w","e","a","k">>,
        <<"t","h","i","n">> >>,
     \* water_problems
     << <<"d","r","y">>,
        <<"w","e","t">>,
        <<"s","o","g","g","y">>,
        <<"t","h","i","r","s","t","y">>,
        <<"p","a","r","c","h","e","d">>,
        <<"w","a","t","e","r","l","o","g","g","e","d">> >>,
     \* light_problems
     << <<"p","a","l","e">>,
        <<"s","t","r","e","t","c","h","i","n","g">>,
        <<"l","e","g","g","y">>,
        <<"s","p","i","n","d","l","y">>,
        <<"w","e","a","k">>,
        <<"t","h","i","n">> >>,
     \* pest_problems
     << <<"h","o","l","e","s">>,
        <<"s","p","o","t","s">>,
        <<"b","u","g","s">>,
        <<"w","e","b","s">>,
        <<"s","t","i","c","k","y">>,
        <<"p","o","w","d","e","r","y">> >> >>

getSemanticMatches(symptom, inputText) ==
  Cardinality({g \in DOMAIN semanticGroups :
    /\ \E k \in DOMAIN semanticGroups[g] : includes(symptom, semanticGroups[g][k])
    /\ \E k \in DOMAIN semanticGroups[g] : includes(inputText, semanticGroups[g][k])})

\* the entry extractSymptoms computes for one candidate symptom: its score in
\* tenths and its match type
symptomMatch(symptom, text) ==
  LET symptomLower == toLowerCase(symptom)
      symptomWords == splitSpace(symptomLower)
      inputWords == splitSpace(text)
      partial == Cardinality({<<i, j>> \in (DOMAIN symptomWords) \X (DOMAIN inputWords) :
                   /\ Len(symptomWords[i]) > 2
                   /\ \/ includes(inputWords[j], symptomWords[i])
                      \/ includes(symptomWords[i], inputWords[j])})
      substr == Cardinality({i \in DOMAIN symptomWords :
                  Len(symptomWords[i]) > 3 /\ includes(text, symptomWords[i])})
      semantic == getSemanticMatches(symptomLower, text)
  IN  IF includes(text, symptomLower)
      THEN [matchScore |-> 10, matchType |-> "exact"]
      ELSE [matchScore |-> 3 * partial + 5 * substr + 4 * semantic,
            matchType |-> IF semantic > 0 THEN "semantic"
                          ELSE IF substr > 0 THEN "substring"
                          ELSE IF partial > 0 THEN "partial"
                          ELSE ""]

\* Array.prototype.sort with the comparator (a, b) => b.key - a.key: stable,
\* greatest key first
sortDescending(xs, keys) ==
  LET before(i, j) == \/ fLt(keys[j], keys[i])
                      \/ fEq(keys[i], keys[j]) /\ i < j
      rank(i) == Cardinality({j \in DOMAIN xs : before(j, i)}) + 1
  IN  [r \in DOMAIN xs |-> xs[CHOOSE i \in DOMAIN xs : rank(i) = r]]

\* matchedSymptoms.sort((a, b) => b.weight - a.weight)
sortByWeight(ms) == sortDescending(ms, [i \in DOMAIN ms |-> ms[i].weight])

\* the forEach of extractSymptoms: the first entry of each symptom text
RECURSIVE uniqueSymptoms(_)
uniqueSymptoms(ms) ==
  IF ms = <<>> THEN <<>>
  ELSE LET front == uniqueSymptoms(SubSeq(ms, 1, Len(ms) - 1))
           last == ms[Len(ms)]
       IN  IF \E i \in DOMAIN front : front[i].symptom = last.symptom
           THEN front ELSE Append(front, last)

\* the limit of extractSymptoms
TopMatches == 10

\* Array.prototype.slice(0, n), n >= 0
slice(xs, n) == SubSeq(xs, 1, IF n < Len(xs) THEN n ELSE Len(xs))

\* the candidate pool of extractSymptoms
allSymptoms(plantSymptoms, genericSymptoms) == plantSymptoms \o genericSymptoms

\* the entries extractSymptoms pushes, in candidate order
matchedSymptoms(ps, inputText, plant) ==
  LET text == toLowerCase(inputText)
      plantSymptoms == plant.symptoms
      candidates == allSymptoms(plantSymptoms, findGeneric(ps).symptoms)
      entry(symptom) ==
        LET m == symptomMatch(symptom, text)
        IN  [symptom |-> symptom,
             source |-> IF symptom \in elements(plantSymptoms)
                        THEN "plant_specific" ELSE "generic",
             weight |-> Tenths(IF m.matchScore < 10 THEN m.matchScore ELSE 10),
             matchType |-> m.matchType,
             matchScore |-> m.matchScore]
      all == [i \in DOMAIN candidates |-> entry(candidates[i])]
      pushed == SelectSeq(all, LAMBDA e : e.matchScore > 2)
  IN  [i \in DOMAIN pushed |->
         [symptom |-> pushed[i].symptom, source |-> pushed[i].source,
          weight |-> pushed[i].weight, matchType |-> pushed[i].matchType]]

\* extractSymptoms without the removal of duplicates
extractSymptomsNoDedup(ps, inputText, plant) ==
  slice(sortByWeight(matchedSymptoms(ps, inputText, plant)), TopMatches)

extractSymptoms(ps, inputText, plant) ==
  slice(uniqueSymptoms(sortByWeight(matchedSymptoms(ps, inputText, plant))),
        TopMatches)

(***************************************************************************)
(* generateDiagnoses                                                       *)
(***************************************************************************)
\* the value null
Null == [kind |-> "null"]

RECURSIVE totalWeight(_)
totalWeight(symptoms) ==
  IF symptoms = <<>> THEN Zero
  ELSE fAdd(Head(symptoms).weight, totalWeight(Tail(symptoms)))

calculateSymptomScore(symptoms) ==
  IF Len(symptoms) = 0 THEN Zero
  ELSE LET maxPossibleWeight == IF Len(symptoms) > 3 THEN Len(symptoms) ELSE 3
       IN  fMin(fMul(totalWeight(symptoms), Frac(1, maxPossibleWeight)), One)

\* the floor calculateEnhancedConfidence puts under every confidence
MinimumConfidence == Tenths(3)

\* calculateEnhancedConfidence without the floor
calculateEnhancedConfidenceNoFloor(matchedKeywords, totalKeywords, symptoms, enhancedSymptoms, cfg) ==
  fMin(fAdd(fMul(cfg.plantMatchWeight,
                 Frac(Len(matchedKeywords),
                      IF totalKeywords > 1 THEN totalKeywords ELSE 1)),
            fMul(fMul(cfg.symptomMatchWeight,
                      fAdd(calculateSymptomScore(symptoms),
                           calculateSymptomScore(enhancedSymptoms))),
                 Frac(1, 2))),
       One)

calculateEnhancedConfidence(matchedKeywords, totalKeywords, symptoms, enhancedSymptoms, cfg) ==
  LET keywordScore == Frac(Len(matchedKeywords),
                           IF totalKeywords > 1 THEN totalKeywords ELSE 1)
      symptomScore == calculateSymptomScore(symptoms)
      enhancedScore == calculateSymptomScore(enhancedSymptoms)
      combinedScore ==
        fMin(fAdd(fMul(cfg.plantMatchWeight, keywordScore),
                  fMul(fMul(cfg.symptomMatchWeight, fAdd(symptomScore, enhancedScore)),
                       Frac(1, 2))),
             One)
  IN  fMax(combinedScore, MinimumConfidence)

\* some word of the phrase, longer than two characters, is contained in the input
anyWordIncluded(phraseLower, inputText) ==
  \E w \in elements(splitSpace(phraseLower)) : Len(w) > 2 /\ includes(inputText, w)

enhancedSymptomDetection(inputText, plant) ==
  LET entry(symptom) ==
        IF includes(inputText, toLowerCase(symptom))
        THEN [symptom |-> symptom, source |-> "enhanced_direct", weight |-> One]
        ELSE IF anyWordIncluded(toLowerCase(symptom), inputText)
        THEN [symptom |-> symptom, source |-> "enhanced_partial", weight |-> Tenths(7)]
        ELSE Null
      all == [i \in DOMAIN plant.symptoms |-> entry(plant.symptoms[i])]
  IN  SelectSeq(all, LAMBDA e : e # Null)

patterns ==
  << [id |-> "underwatering", keywords |->
       << <<"d","r","y">>,
          <<"c","r","i","s","p","y">>,
          <<"b","r","o","w","n">>,
          <<"w","i","l","t","i","n","g">>,
          <<"d","r","o","o","p","i","n","g">>,
          <<"t","h","i","r","s","t","y">> >>],
     [id |-> "overwatering", keywords |->
       << <<"y","e","l","l","o","w">>,
          <<"m","u","s","h","y">>,
          <<"w","e","t">>,
          <<"s","o","g","g","y">>,
          <<"d","r","o","p","p","i","n","g">>,
          <<"f","a","l","l","i","n","g">> >>],
     [id |-> "light_issues", keywords |->
       << <<"p","a","l","e">>,
          <<"s","t","r","e","t","c","h","i","n","g">>,
          <<"w","e","a","k">>,
          <<"s","m","a","l","l">>,
          <<"n","o","t"," ","g","r","o","w","i","n","g">>,
          <<"l","e","g","g","y">> >>],
     [id |-> "pests", keywords |->
       << <<"b","u","g","s">>,
          <<"h","o","l","e","s">>,
          <<"s","p","o","t","s">>,
          <<"w","e","b","s">>,
          <<"t","i","n","y">>,
          <<"i","n","s","e","c","t","s">> >>] >>

getCauseLabel(causeId) ==
  CASE causeId = "underwatering" ->
      <<"U","n","d","e","r","w","a","t","e","r","i","n","g"," ","&"," ","D","e","h","y","d","r","a","t","i","o","n">>
    [] causeId = "overwatering" ->
      <<"O","v","e","r","w","a","t","e","r","i","n","g"," ","&"," ","R","o","o","t"," ","R","o","t">>
    [] causeId = "light_issues" ->
      <<"L","i","g","h","t"," ","P","r","o","b","l","e","m","s"," ","&"," ","P","h","o","t","o","s","y","n","t","h","e","s","i","s"," ","I","s","s","u","e","s">>
    [] causeId = "pests" ->
      <<"P","e","s","t"," ","I","n","f","e","s","t","a","t","i","o","n"," ","&"," ","D","i","s","e","a","s","e">>
    [] OTHER ->
      <<"P","l","a","n","t"," ","H","e","a","l","t","h"," ","I","s","s","u","e">>

\* detectGenericCause answering with the last group that has a keyword
detectGenericCauseLastGroup(inputText) ==
  LET hit == {p \in DOMAIN patterns :
                \E k \in DOMAIN patterns[p].keywords :
                  includes(inputText, patterns[p].keywords[k])}
  IN  IF hit = {} THEN Null
      ELSE [id |-> patterns[greatest(hit)].id,
            label |-> getCauseLabel(patterns[greatest(hit)].id),
            keywords |-> patterns[greatest(hit)].keywords]

detectGenericCause(inputText) ==
  LET hit == {p \in DOMAIN patterns :
                \E k \in DOMAIN patterns[p].keywords :
                  includes(inputText, patterns[p].keywords[k])}
  IN  IF hit = {} THEN Null
      ELSE [id |-> patterns[least(hit)].id,
            label |-> getCauseLabel(patterns[least(hit)].id),
            keywords |-> patterns[least(hit)].keywords]

commonWords ==
  << <<"y","e","l","l","o","w">>,
     <<"b","r","o","w","n">>,
     <<"d","r","y">>,
     <<"w","e","t">>,
     <<"p","a","l","e">>,
     <<"s","m","a","l","l">>,
     <<"w","e","a","k">> >>

generateEnhancedWhyExplanation(matchedKeywords, cause, enhancedSymptoms) ==
  IF Len(matchedKeywords) = 0 /\ Len(enhancedSymptoms) = 0
  THEN [text |-> "Based on general plant care patterns",
        label |-> toLowerCase(cause.label)]
  ELSE [text |-> "Detected keywords",
        keywords |-> slice(matchedKeywords, 3),
        symptoms |-> LET s == slice(enhancedSymptoms, 2)
                     IN  [i \in DOMAIN s |-> s[i].symptom],
        label |-> toLowerCase(cause.label)]

generateGenericWhyExplanation(inputText, cause) ==
  LET foundWords == SelectSeq(commonWords, LAMBDA w : includes(inputText, w))
  IN  IF Len(foundWords) > 0
      THEN [text |-> "Detected common symptoms", words |-> foundWords,
            label |-> toLowerCase(cause.label)]
      ELSE [text |-> "Based on the plant type and common issues",
            label |-> toLowerCase(cause.label)]

\* plant.solutions[id] || plant.solutions['watering_issues'] || the fixed list
actionsFor(plant, causeId) ==
  IF causeId \in DOMAIN plant.solutions THEN plant.solutions[causeId]
  ELSE IF "watering_issues" \in DOMAIN plant.solutions
  THEN plant.solutions["watering_issues"]
  ELSE <<"Check soil moisture with your finger", "Ensure proper drainage",
         "Adjust watering schedule", "Monitor plant response">>

\* the fixed diagnosis of an input without symptoms
noSymptoms ==
  [cause |-> [id |-> "no_symptoms",
              label |-> <<"U","n","c","l","e","a","r"," ","S","y","m","p","t","o","m","s">>],
   confidence |-> Tenths(2),
   why |-> [text |-> "I couldn't detect specific symptoms in your description."],
   actions |-> <<"Provide more specific details about what you're seeing",
                 "Mention the plant name if you know it",
                 "Describe the symptoms more clearly",
                 "Include information about watering, light, and recent changes">>,
   eco_tip |-> "When in doubt, less water is usually better than more water for most plants!"]

\* the keywords of a cause that the input matches (allMatches)
allMatches(cause, inputLower) ==
  LET matchedKeywords ==
        SelectSeq(cause.keywords, LAMBDA k : includes(inputLower, toLowerCase(k)))
      partialMatches ==
        SelectSeq(cause.keywords, LAMBDA k : anyWordIncluded(toLowerCase(k), inputLower))
  IN  unique(matchedKeywords \o partialMatches)

\* a keyword gate that the generic plant does not pass by itself
passesGateKeywordsOnly(plant, cause, inputLower) ==
  Len(allMatches(cause, inputLower)) > 0

\* the cause passes the keyword gate of generateDiagnoses
passesGate(plant, cause, inputLower) ==
  Len(allMatches(cause, inputLower)) > 0 \/ plant.id = "generic"

\* the threshold test of generateDiagnoses
accepted(confidence, cfg) == fLe(cfg.minConfidenceThreshold, confidence)

\* the diagnoses pushed by the loop over plant.causes
scoredDiagnoses(plant, symptoms, enhancedSymptoms, inputLower, cfg) ==
  LET entry(cause) ==
        LET matches == allMatches(cause, inputLower)
            confidence == calculateEnhancedConfidence(matches, Len(cause.keywords),
                                                      symptoms, enhancedSymptoms, cfg)
        IN  IF passesGate(plant, cause, inputLower) /\ accepted(confidence, cfg)
            THEN [cause |-> cause, confidence |-> confidence,
                  why |-> generateEnhancedWhyExplanation(matches, cause, enhancedSymptoms),
                  actions |-> actionsFor(plant, cause.id),
                  eco_tip |-> plant.eco_tip]
            ELSE Null
      all == [i \in DOMAIN plant.causes |-> entry(plant.causes[i])]
  IN  SelectSeq(all, LAMBDA d : d # Null)

\* the fixed confidence of the pattern diagnosis
PatternConfidence == Tenths(4)

\* the pattern diagnosis at the floor of the scored confidences
patternDiagnosesAtFloor(plant, inputLower) ==
  LET genericCause == detectGenericCause(inputLower)
  IN  IF genericCause = Null THEN <<>>
      ELSE <<[cause |-> genericCause, confidence |-> MinimumConfidence,
              why |-> generateGenericWhyExplanation(inputLower, genericCause),
              actions |-> actionsFor(plant, genericCause.id),
              eco_tip |-> plant.eco_tip]>>

\* the diagnoses of the "If still no diagnoses" block
patternDiagnoses(plant, inputLower) ==
  LET genericCause == detectGenericCause(inputLower)
  IN  IF genericCause = Null THEN <<>>
      ELSE <<[cause |-> genericCause, confidence |-> PatternConfidence,
              why |-> generateGenericWhyExplanation(inputLower, genericCause),
              actions |-> actionsFor(plant, genericCause.id),
              eco_tip |-> plant.eco_tip]>>

\* a descending sort by confidence that puts the later of two equals first
sortByConfidenceTiesReversed(diagnoses) ==
  LET before(i, j) ==
        \/ fLt(diagnoses[j].confidence, diagnoses[i].confidence)
        \/ fEq(diagnoses[i].confidence, diagnoses[j].confidence) /\ i > j
      rank(i) == Cardinality({j \in DOMAIN diagnoses : before(j, i)}) + 1
  IN  [r \in DOMAIN diagnoses |->
         diagnoses[CHOOSE i \in DOMAIN diagnoses : rank(i) = r]]

\* diagnoses.sort((a, b) => b.confidence - a.confidence)
sortByConfidence(diagnoses) ==
  sortDescending(diagnoses, [i \in DOMAIN diagnoses |-> diagnoses[i].confidence])

\* the list before the final sort: the scored diagnoses, or the last resort
diagnosesOrPattern(scored, plant, inputLower) ==
  IF Len(scored) = 0 THEN patternDiagnoses(plant, inputLower) ELSE scored

\* generateDiagnoses scoring the causes even when no symptom was found
generateDiagnosesNoShortCut(plant, symptoms, inputText, cfg) ==
  slice(sortByConfidence(diagnosesOrPattern(
          scoredDiagnoses(plant, symptoms,
                          enhancedSymptomDetection(toLowerCase(inputText), plant),
                          toLowerCase(inputText), cfg),
          plant, toLowerCase(inputText))),
        cfg.maxDiagnoses)

generateDiagnoses(plant, symptoms, inputText, cfg) ==
  LET inputLower == toLowerCase(inputText)
      enhancedSymptoms == enhancedSymptomDetection(inputLower, plant)
  IN  IF Len(symptoms) = 0 /\ Len(enhancedSymptoms) = 0 THEN <<noSymptoms>>
      ELSE slice(sortByConfidence(diagnosesOrPattern(
                   scoredDiagnoses(plant, symptoms, enhancedSymptoms, inputLower, cfg),
                   plant, inputLower)),
                 cfg.maxDiagnoses)

(***************************************************************************)
(* diagnose                                                                *)
(***************************************************************************)
\* the fixed result of an empty input
emptyInput(now) ==
  [plantName |-> <<"g","e","n","e","r","i","c">>,
   plantMatchScore |-> Zero,
   diagnoses |->
     <<[cause |-> [id |-> "empty_input",
                   label |-> <<"N","o"," ","I","n","p","u","t"," ","P","r","o","v","i","d","e","d">>],
        confidence |-> Zero,
        why |-> [text |-> "Please provide a description of your plant's problem."],
        actions |-> <<"Describe what you're seeing (yellow leaves, drooping, etc.)",
                      "Mention the plant name if you know it",
                      "Include details about watering and light conditions",
                      "Describe any recent changes to the plant's environment">>,
        eco_tip |-> "The more details you provide, the better I can help diagnose the issue!"]>>,
   timestamp |-> now]

\* the emptiness test without trim
isBlankNoTrim(inputText) == Len(inputText) = 0

\* !inputText || inputText.trim().length === 0
isBlank(inputText) == Len(inputText) = 0 \/ Len(trim(inputText)) = 0

Ellipsis == <<".", ".", ".">>

\* truncation without the ellipsis
truncateNoEllipsis(inputText, cfg) ==
  IF Len(inputText) > cfg.maxInputLength
  THEN substring(inputText, cfg.maxInputLength)
  ELSE inputText

truncate(inputText, cfg) ==
  IF Len(inputText) > cfg.maxInputLength
  THEN substring(inputText, cfg.maxInputLength) \o Ellipsis
  ELSE inputText

\* the stage calls diagnose makes on the text
stages(fns, text) == [i \in DOMAIN fns |-> [fn |-> fns[i], text |-> text]]

\* diagnose from line 476 on: the result record built from the three stages
diagnosisResult(inputText, truncatedInput, plantDetection, symptoms, diagnoses, now) ==
  [input |-> inputText, returned |-> TRUE,
   result |-> [plantName |-> plantDetection.plant.name,
               plantMatchScore |-> plantDetection.score,
               diagnoses |-> diagnoses,
               timestamp |-> now,
               originalInput |-> truncatedInput,
               detectedPlant |-> plantDetection.plant.id,
               detectionMethod |-> plantDetection.method],
   invoked |-> stages(<<"detectPlant", "extractSymptoms", "generateDiagnoses">>,
                      truncatedInput),
   plantDetection |-> plantDetection, symptoms |-> symptoms]

\* diagnose from line 473 on, with the detected plant
diagnoseDetected(ps, cfg, inputText, truncatedInput, plantDetection, symptoms, now) ==
  diagnosisResult(inputText, truncatedInput, plantDetection, symptoms,
                  generateDiagnoses(plantDetection.plant, symptoms, truncatedInput, cfg),
                  now)

\* diagnose from line 472 on, with the truncated text
diagnoseText(ps, cfg, inputText, truncatedInput, plantDetection, now) ==
  IF plantDetection.plant = Undefined \/ findGeneric(ps) = Undefined
  THEN \* extractSymptoms reads a property of undefined: TypeError
       [input |-> inputText, returned |-> FALSE, result |-> Undefined,
        invoked |-> stages(<<"detectPlant", "extractSymptoms">>, truncatedInput),
        plantDetection |-> plantDetection, symptoms |-> <<>>]
  ELSE diagnoseDetected(ps, cfg, inputText, truncatedInput, plantDetection,
                        extractSymptoms(ps, truncatedInput, plantDetection.plant), now)

\* one call of diagnose at time now: whether it returned, what it returned,
\* the functions it invoked with the text each was given, and what detectPlant
\* and extractSymptoms gave it
diagnose(ps, index, cfg, inputText, now) ==
  IF isBlank(inputText)
  THEN [input |-> inputText, returned |-> TRUE, result |-> emptyInput(now),
        invoked |-> <<>>, plantDetection |-> Undefined, symptoms |-> <<>>]
  ELSE diagnoseText(ps, cfg, inputText, truncate(inputText, cfg),
                    detectPlant(ps, index, cfg, truncate(inputText, cfg)), now)

\* this.plants after a call that pushes the generic symptoms onto the detected
\* plant's own symptom list instead of copying it
plantsAfterDiagnoseInPlace(ps, index, cfg, inputText) ==
  LET plant == detectPlant(ps, index, cfg, truncate(inputText, cfg)).plant
  IN  IF isBlank(inputText) \/ plant = Undefined \/ findGeneric(ps) = Undefined
      THEN ps
      ELSE [i \in DOMAIN ps |->
              IF ps[i] = plant
              THEN [ps[i] EXCEPT !.symptoms = @ \o findGeneric(ps).symptoms]
              ELSE ps[i]]

\* this.plants after a call of diagnose: the call writes to no plant record
\* (extractSymptoms builds its candidate pool as a copy, the sorts run on
\* arrays made in the call)
plantsAfterDiagnose(ps, index, cfg, inputText) == ps

(***************************************************************************)
(* The knowledge bases, configurations and inputs of the model             *)
(***************************************************************************)
\* a plant whose name has two words and whose causes have keywords of the vocabulary
TipIvy ==
  [id |-> "tip_ivy",
   name |-> <<"T","i","p"," ","I","v","y">>,
   aliases |-> <<<<"D","r","y"," ","V","i","n","e">>>>,
   symptoms |-> <<<<"D","r","y"," ","t","i","p">>, <<"w","e","t"," ","s","o","i","l">>>>,
   causes |->
     <<[id |-> "underwatering", label |-> <<"T","o","o"," ","D","r","y">>,
         keywords |-> <<<<"d","r","y"," ","s","o","i","l">>, <<"t","i","p">>>>],
       [id |-> "pests", label |-> <<"P","e","s","t","s">>,
         keywords |-> <<<<"b","u","g","s">>, <<"D","r","y">>>>]>>,
   solutions |-> [underwatering |-> <<"Water deeply">>],
   eco_tip |-> "Collect rainwater"]

\* a plant none of whose cause keywords is in the vocabulary
Ivy ==
  [id |-> "ivy",
   name |-> <<"I","v","y">>,
   aliases |-> <<<<"i","v">>, <<"V","i","n","e">>>>,
   symptoms |-> <<<<"D","r","y"," ","t","i","p">>, <<"W","e","t"," ","s","o","i","l">>>>,
   causes |->
     <<[id |-> "pests", label |-> <<"P","e","s","t","s">>,
         keywords |-> <<<<"b","u","g","s">>>>]>>,
   solutions |-> [watering_issues |-> <<"Check the soil">>],
   eco_tip |-> "Wipe the leaves"]

\* the generic record
Generic ==
  [id |-> "generic",
   name |-> <<"G","e","n","e","r","i","c"," ","P","l","a","n","t">>,
   aliases |-> <<>>,
   symptoms |-> <<<<"d","r","y">>, <<"D","r","y"," ","t","i","p">>, <<"p","a","l","e"," ","l","e","a","f">>>>,
   causes |->
     <<[id |-> "watering_issues", label |-> <<"W","a","t","e","r","i","n","g">>,
         keywords |-> <<<<"d","r","y">>, <<"w","e","t">>>>],
       [id |-> "light_issues", label |-> <<"L","i","g","h","t">>,
         keywords |-> <<>>]>>,
   solutions |-> [watering_issues |-> <<"Check the soil">>, light_issues |-> <<"Move to a window">>],
   eco_tip |-> "Compost old leaves"]

\* a plant with many symptoms
Bushy ==
  [id |-> "ivy",
   name |-> <<"I","v","y">>,
   aliases |-> <<>>,
   symptoms |-> <<<<"d","r","y">>, <<"t","i","p">>, <<"w","e","t">>, <<"w","e","b">>, <<"b","u","d">>, <<"s","a","p">>>>,
   causes |->
     <<[id |-> "underwatering", label |-> <<"T","o","o"," ","D","r","y">>,
         keywords |-> <<<<"d","r","y">>>>],
       [id |-> "pests", label |-> <<"P","e","s","t","s">>,
         keywords |-> <<<<"t","i","p">>, <<"w","e","b">>>>],
       [id |-> "rot", label |-> <<"R","o","t">>,
         keywords |-> <<<<"v","i","n","e">>, <<"w","e","t">>>>]>>,
   solutions |-> <<>>,
   eco_tip |-> "Collect rainwater"]

\* a generic record with many symptoms
GenericMany ==
  [id |-> "generic",
   name |-> <<"G","e","n","e","r","i","c"," ","P","l","a","n","t">>,
   aliases |-> <<>>,
   symptoms |-> <<<<"r","o","t">>, <<"d","o","t">>, <<"t","i","p">>, <<"g","a","p">>, <<"f","o","g">>, <<"c","u","t">>>>,
   causes |->
     <<[id |-> "watering_issues", label |-> <<"W","a","t","e","r","i","n","g">>,
         keywords |-> <<<<"d","r","y">>, <<"w","e","t">>>>]>>,
   solutions |-> [watering_issues |-> <<"Check the soil">>],
   eco_tip |-> "Compost old leaves"]

\* a record given to addPlant: a plant named as an alias of another
Vine ==
  [id |-> "vine",
   name |-> <<"V","i","n","e">>,
   aliases |-> <<>>,
   symptoms |-> <<<<"d","r","y">>>>,
   causes |->
     <<[id |-> "underwatering", label |-> <<"T","o","o"," ","D","r","y">>,
         keywords |-> <<<<"d","r","y">>>>]>>,
   solutions |-> <<>>,
   eco_tip |-> "Mulch"]

\* a file that cannot be read or parsed
Unreadable == [readable |-> FALSE]

\* a file that parses to the given content
Readable(content) == [readable |-> TRUE, content |-> content]

\* the contents data/plants.json may have
KnowledgeBases ==
  { <<TipIvy, Ivy, Generic>>, <<Bushy, GenericMany>>, <<Ivy>> }

\* the records addPlant is called with
NewPlants == { Vine }

\* loadConfig's defaults
DefaultConfig ==
  [minConfidenceThreshold |-> Tenths(3), maxDiagnoses |-> 3,
   plantMatchWeight |-> Tenths(4), symptomMatchWeight |-> Tenths(6),
   fuzzyThreshold |-> Tenths(6), maxInputLength |-> 500]

\* the contents config.json may have
ConfigFiles ==
  { [minConfidenceThreshold |-> Tenths(5), maxDiagnoses |-> 1,
     plantMatchWeight |-> Tenths(5), symptomMatchWeight |-> Tenths(9),
     fuzzyThreshold |-> Tenths(6), maxInputLength |-> 5],
    [minConfidenceThreshold |-> Tenths(3), maxDiagnoses |-> 2,
     plantMatchWeight |-> Tenths(4), symptomMatchWeight |-> Tenths(6),
     fuzzyThreshold |-> Tenths(4), maxInputLength |-> 2] }

\* the pieces inputs are made of
Vocabulary ==
  { <<" ">>, <<"\t">>, <<"I","v","y">>, <<"v","i","n","e">>,
    <<"d","r","y">>, <<"t","i","p">>, <<"i","v">>, <<"w","e","t">> }

\* the most pieces in one input
MaxTokens == 3

\* the inputs diagnose is called with
Inputs ==
  { concat(ts) : ts \in UNION { [1..n -> Vocabulary] : n \in 0..MaxTokens } }

\* the most diagnose calls in one behaviour
MaxClock == 2

\* the most addPlant calls in one behaviour
MaxAdds == 1

(***************************************************************************)
(* The engine                                                              *)
(***************************************************************************)
loadConfig(file) == IF file.readable THEN file.content ELSE DefaultConfig

Init ==
  /\ phase = "new"
  /\ plantsFile \in {Readable(kb) : kb \in KnowledgeBases} \cup {Unreadable}
  /\ config = None
  /\ plants = <<>>
  /\ fuse = None
  /\ clock = 0
  /\ adds = 0
  /\ call = None
  /\ prev = None
  /\ logger = None
  /\ logFile = Unreadable
  /\ logged = 0
  /\ stats = None

\* new PlantDiagnosisEngine(configPath): loadPlantData throws on a file that
\* cannot be read or parsed
Construct(configFile) ==
  /\ phase = "new"
  /\ IF ~plantsFile.readable
     THEN /\ phase' = "failed"
          /\ config' = loadConfig(configFile)
          /\ UNCHANGED <<plants, fuse>>
     ELSE /\ phase' = "ready"
          /\ config' = loadConfig(configFile)
          /\ plants' = plantsFile.content
          /\ fuse' = initializeFuzzySearch(plantsFile.content, loadConfig(configFile))
  /\ UNCHANGED <<plantsFile, clock, adds, call, prev>>
  /\ UNCHANGED loggerVars

\* engine.diagnose(inputText), the first call of a request or a second call
\* with the same input
Diagnose(inputText) ==
  /\ phase = "ready"
  /\ clock < MaxClock
  /\ IF call = None THEN TRUE ELSE prev = None /\ inputText = call.input
  /\ call' = diagnose(plants, fuse, config, inputText, clock)
  /\ prev' = call
  /\ clock' = clock + 1
  /\ plants' = plantsAfterDiagnose(plants, fuse, config, inputText)
  /\ UNCHANGED <<phase, plantsFile, config, fuse, adds>>
  /\ UNCHANGED loggerVars

\* the request handler hands the result (or the error) to its client
Respond ==
  /\ call # None
  /\ call' = None
  /\ prev' = None
  /\ UNCHANGED <<phase, plantsFile, config, plants, fuse, clock, adds>>
  /\ UNCHANGED loggerVars

\* addPlant without the rebuild of the fuzzy index
AddPlantStaleIndex(plantData, saved) ==
  /\ phase = "ready"
  /\ call = None
  /\ adds < MaxAdds
  /\ plants' = Append(plants, plantData)
  /\ plantsFile' = IF saved THEN Readable(plants') ELSE plantsFile
  /\ adds' = adds + 1
  /\ UNCHANGED <<phase, config, fuse, clock, call, prev>>
  /\ UNCHANGED loggerVars

\* engine.addPlant(plantData); savePlantData logs a failed write and goes on
AddPlant(plantData, saved) ==
  /\ phase = "ready"
  /\ call = None
  /\ adds < MaxAdds
  /\ plants' = Append(plants, plantData)
  /\ fuse' = initializeFuzzySearch(plants', config)
  /\ plantsFile' = IF saved THEN Readable(plants') ELSE plantsFile
  /\ adds' = adds + 1
  /\ UNCHANGED <<phase, config, clock, call, prev>>
  /\ UNCHANGED loggerVars

Next ==
  \/ \E configFile \in {Readable(c) : c \in ConfigFiles} \cup {Unreadable} :
       Construct(configFile)
  \/ \E inputText \in Inputs : Diagnose(inputText)
  \/ Respond
  \/ \E plantData \in NewPlants, saved \in BOOLEAN : AddPlant(plantData, saved)

Spec == Init /\ [][Next]_vars


(***************************************************************************)
(* The interaction logger                                                  *)
(***************************************************************************)
\* the capacity of the in-memory log
maxMemoryLogs == 250

\* the logging sections a configuration may hold; NoLogging is a
\* configuration without one
NoLogging == [kind |-> "no logging section"]

\* a configured logs directory
LogsDirectory == [path |-> "logs"]

LoggingConfigs ==
  { NoLogging,
    [enabled |-> TRUE, directory |-> LogsDirectory],
    [enabled |-> TRUE, directory |-> Undefined],
    [enabled |-> FALSE, directory |-> LogsDirectory] }

\* the most logInteraction calls made on one logger
MaxLogCalls == 252

\* resolveLogsDirectory: null without a configured directory
resolveLogsDirectory(logging) ==
  IF logging.directory = Undefined THEN Null ELSE logging.directory

\* new Logger(config) in an environment that is read-only or not, and in
\* which the logs directory can be created or not
Logger(loggingConfig, isReadOnlyEnvironment, directoryCreated) ==
  LET logging == IF loggingConfig = NoLogging
                 THEN [enabled |-> FALSE, directory |-> Undefined]
                 ELSE loggingConfig
      logsDir == resolveLogsDirectory(logging)
      enabled == /\ logging.enabled
                 /\ ~isReadOnlyEnvironment
                 /\ (logsDir # Null => directoryCreated)
  IN  [logging |-> [enabled |-> enabled, directory |-> logging.directory],
       memoryLogs |-> <<>>,
       isReadOnlyEnvironment |-> isReadOnlyEnvironment,
       logsDir |-> logsDir]

\* the logger writes to and reads from the log file
fileLogging(lg) == lg.logging.enabled /\ lg.logsDir # Null

\* loadTodayLogs: a copy of the in-memory log without file logging, else the
\* content of today's file, empty when there is none
loadTodayLogs(lg, file) ==
  IF ~fileLogging(lg) THEN lg.memoryLogs
  ELSE IF file.readable THEN file.content
  ELSE <<>>

\* a property of a result, undefined when the result has none of that name
property(result, name) ==
  IF name \in DOMAIN result THEN result[name] ELSE Undefined

\* the entry logInteraction makes of a diagnosis result
logEntry(result) ==
  [timestamp |-> result.timestamp,
   originalInput |-> property(result, "originalInput"),
   detectedPlant |-> property(result, "detectedPlant"),
   plantName |-> result.plantName,
   plantMatchScore |-> result.plantMatchScore,
   detectionMethod |-> property(result, "detectionMethod"),
   diagnoses |-> [i \in DOMAIN result.diagnoses |->
                    [cause |-> result.diagnoses[i].cause,
                     confidence |-> result.diagnoses[i].confidence,
                     why |-> result.diagnoses[i].why,
                     actions |-> result.diagnoses[i].actions,
                     eco_tip |-> result.diagnoses[i].eco_tip]]]

\* a full in-memory log that drops the new entry and keeps the oldest
pushMemoryLogDropNewest(memoryLogs, entry) ==
  IF Len(memoryLogs) + 1 > maxMemoryLogs
  THEN memoryLogs
  ELSE Append(memoryLogs, entry)

\* memoryLogs.push(logEntry) and the shift of the oldest entry
pushMemoryLog(memoryLogs, entry) ==
  IF Len(memoryLogs) + 1 > maxMemoryLogs
  THEN Tail(Append(memoryLogs, entry))
  ELSE Append(memoryLogs, entry)

\* the logger after logInteraction(result)
logInteraction(lg, result) ==
  [lg EXCEPT !.memoryLogs = pushMemoryLog(@, logEntry(result))]

\* today's log file after logInteraction(result)
saveLogs(lg, file, result) ==
  IF fileLogging(lg)
  THEN Readable(Append(loadTodayLogs(lg, file), logEntry(result)))
  ELSE file

\* the number of entries of the logs with a plant name
countPlant(logs, plantName) ==
  Cardinality({i \in DOMAIN logs : logs[i].plantName = plantName})

\* the diagnoses of the logs, each as <<log index, diagnosis index>>
loggedDiagnoses(logs) ==
  UNION {{<<i, k>> : k \in DOMAIN logs[i].diagnoses} : i \in DOMAIN logs}

\* the number of diagnoses in the logs with a cause id
countIssue(logs, causeId) ==
  Cardinality({d \in loggedDiagnoses(logs) :
                 logs[d[1]].diagnoses[d[2]].cause.id = causeId})

\* Math.max over the confidences of a non-empty list of diagnoses
maxConfidence(diagnoses) ==
  diagnoses[CHOOSE i \in DOMAIN diagnoses :
              \A j \in DOMAIN diagnoses :
                fLe(diagnoses[j].confidence, diagnoses[i].confidence)].confidence

\* the sum of the greatest confidence of each log that has a diagnosis
\* (exact sums do not depend on the grouping)
RECURSIVE totalConfidence(_)
totalConfidence(logs) ==
  IF logs = <<>> THEN Zero
  ELSE IF Len(logs) = 1
  THEN IF logs[1].diagnoses = <<>> THEN Zero ELSE maxConfidence(logs[1].diagnoses)
  ELSE fAdd(totalConfidence(SubSeq(logs, 1, Len(logs) \div 2)),
            totalConfidence(SubSeq(logs, Len(logs) \div 2 + 1, Len(logs))))

\* getLogStats over the logs loadTodayLogs gives
logStats(logs) ==
  [totalInteractions |-> Len(logs),
   plantsDetected |->
     [name \in {logs[i].plantName : i \in DOMAIN logs} |-> countPlant(logs, name)],
   averageConfidence |->
     IF Len(logs) = 0 THEN Zero
     ELSE fMul(totalConfidence(logs), Frac(1, Len(logs))),
   mostCommonIssues |->
     [id \in {logs[d[1]].diagnoses[d[2]].cause.id : d \in loggedDiagnoses(logs)} |->
        countIssue(logs, id)]]

getLogStats(lg, file) == logStats(loadTodayLogs(lg, file))

\* new Logger(engine.config)
ConstructLogger(loggingConfig, isReadOnlyEnvironment, directoryCreated) ==
  /\ logger = None
  /\ logger' = Logger(loggingConfig, isReadOnlyEnvironment, directoryCreated)
  /\ UNCHANGED <<logFile, logged, stats>>
  /\ UNCHANGED engineVars

\* logger.logInteraction(result) with the result of a request without text,
\* stamped with the number of the call
LogInteraction ==
  /\ logger # None
  /\ logged < MaxLogCalls
  /\ logger' = logInteraction(logger, emptyInput(logged))
  /\ logFile' = saveLogs(logger, logFile, emptyInput(logged))
  /\ logged' = logged + 1
  /\ stats' = None
  /\ UNCHANGED engineVars

\* logger.getLogStats()
GetLogStats ==
  /\ logger # None
  /\ stats = None
  /\ stats' = getLogStats(logger, logFile)
  /\ UNCHANGED <<logger, logFile, logged>>
  /\ UNCHANGED engineVars

LoggerNext ==
  \/ \E loggingConfig \in LoggingConfigs,
        isReadOnlyEnvironment \in BOOLEAN, directoryCreated \in BOOLEAN :
       ConstructLogger(loggingConfig, isReadOnlyEnvironment, directoryCreated)
  \/ LogInteraction
  \/ GetLogStats

LoggerSpec == Init /\ [][LoggerNext]_vars
(***************************************************************************)
(* Properties                                                              *)
(***************************************************************************)
\* a diagnose call has been made and its outcome is at hand
Called == call # None

\* the input of the call is empty or holds whitespace only
BlankCall == \A i \in DOMAIN call.input : call.input[i] \in {" ", "\t"}

\* the call ran the pipeline (detection was invoked)
Detected == Called /\ ~BlankCall

\* the call ran the pipeline and returned a result
Diagnosed == Detected /\ call.returned

\* the text detection, extraction and scoring were given
CallText == call.invoked[1].text

\* the diagnoses the cause loop of generateDiagnoses accepted in the call
CallScored ==
  scoredDiagnoses(call.plantDetection.plant, call.symptoms,
                  enhancedSymptomDetection(toLowerCase(CallText),
                                           call.plantDetection.plant),
                  toLowerCase(CallText), config)

\* C1: every result of diagnose has at most maxDiagnoses diagnoses, each with
\* a confidence between minConfidenceThreshold and 1.0, but for the
\* empty_input diagnosis (confidence 0) and the no_symptoms diagnosis (0.2).
C1_ConfidenceWithinThreshold ==
  (Called /\ call.returned) =>
    /\ Len(call.result.diagnoses) <= config.maxDiagnoses
    /\ \A i \in DOMAIN call.result.diagnoses :
         LET d == call.result.diagnoses[i]
         IN  \/ d.cause.id = "empty_input" /\ fEq(d.confidence, Zero)
             \/ d.cause.id = "no_symptoms" /\ fEq(d.confidence, Tenths(2))
             \/ /\ fLe(config.minConfidenceThreshold, d.confidence)
                /\ fLe(d.confidence, One)

\* C2 as stated: when the cause loop accepts no cause for a non-blank input,
\* the result holds the single no_symptoms diagnosis or the single pattern
\* diagnosis at 0.4, and no result has an empty diagnoses list.
C2_NeverEmpty ==
  (Called /\ call.returned) =>
    /\ Len(call.result.diagnoses) > 0
    /\ (~BlankCall /\ CallScored = <<>>) =>
         /\ Len(call.result.diagnoses) = 1
         /\ \/ /\ call.result.diagnoses[1].cause.id = "no_symptoms"
               /\ fEq(call.result.diagnoses[1].confidence, Tenths(2))
            \/ /\ call.result.diagnoses[1].cause.id
                    \in {"underwatering", "overwatering", "light_issues", "pests"}
               /\ fEq(call.result.diagnoses[1].confidence, Tenths(4))

\* some keyword of the four pattern groups is contained in the text
HasPatternWord(text) ==
  \E p \in DOMAIN patterns : \E k \in DOMAIN patterns[p].keywords :
    includes(text, patterns[p].keywords[k])

\* C2, amended: when the cause loop accepts no cause for a non-blank input
\* and maxDiagnoses >= 1, the result holds the single no_symptoms diagnosis
\* (0.2) if neither ordinary nor enhanced symptoms were found; otherwise the
\* single pattern diagnosis (0.4) if a pattern keyword is contained in the
\* lower-cased input; otherwise an empty diagnoses list.
C2_PatternOrEmpty ==
  (Diagnosed /\ CallScored = <<>> /\ config.maxDiagnoses >= 1) =>
    LET ds == call.result.diagnoses
        enhanced == enhancedSymptomDetection(toLowerCase(CallText),
                                             call.plantDetection.plant)
    IN  IF call.symptoms = <<>> /\ enhanced = <<>>
        THEN /\ Len(ds) = 1
             /\ ds[1].cause.id = "no_symptoms"
             /\ fEq(ds[1].confidence, Tenths(2))
        ELSE IF HasPatternWord(toLowerCase(CallText))
        THEN /\ Len(ds) = 1
             /\ ds[1].cause.id
                  \in {"underwatering", "overwatering", "light_issues", "pests"}
             /\ fEq(ds[1].confidence, Tenths(4))
        ELSE ds = <<>>

\* C2 witness: symptoms were found, no cause was accepted and the pattern
\* diagnosis is the result
C2_Witness ==
  /\ Diagnosed
  /\ CallScored = <<>>
  /\ call.symptoms # <<>>
  /\ Len(call.result.diagnoses) = 1
  /\ call.result.diagnoses[1].cause.id = "underwatering"
  /\ fEq(call.result.diagnoses[1].confidence, Tenths(4))

\* C3: a blank input gives exactly the empty_input diagnosis at confidence 0,
\* and detectPlant, extractSymptoms and generateDiagnoses are not invoked.
C3_BlankShortCircuits ==
  (Called /\ BlankCall) =>
    /\ call.returned
    /\ Len(call.result.diagnoses) = 1
    /\ call.result.diagnoses[1].cause.id = "empty_input"
    /\ call.result.diagnoses[1].confidence = Zero
    /\ call.invoked = <<>>

\* C3 witness: a call with a non-empty whitespace-only input
C3_Witness ==
  /\ Called
  /\ BlankCall
  /\ Len(call.input) > 1
  /\ \E i \in DOMAIN call.input : call.input[i] = "\t"
  /\ call.result.diagnoses[1].cause.id = "empty_input"

\* the text holds the name of plant i as it is written in the catalog
ContainsName(text, i) == includes(text, plants[i].name)

\* an alias of plant i passes the alias test of detectPlant on the text
AliasPasses(text, i) ==
  \E k \in DOMAIN plants[i].aliases :
    aliasMatch(plants[i].aliases[k], toLowerCase(text),
               splitWhitespace(toLowerCase(text)))

\* C4: on a text that contains the name of a catalog plant verbatim,
\* detectPlant answers plant_name_match with score 1.0, whatever the alias and
\* fuzzy stages would find.
C4_NameMatchWins ==
  (Detected /\ \E i \in DOMAIN plants : ContainsName(CallText, i)) =>
    /\ call.plantDetection.method = "plant_name_match"
    /\ call.plantDetection.score = One

\* C4 witness: the text holds a plant name and also passes an alias test
C4_Witness ==
  /\ Detected
  /\ \E i \in DOMAIN plants : ContainsName(CallText, i)
  /\ \E i \in DOMAIN plants : AliasPasses(CallText, i)
  /\ call.plantDetection.method = "plant_name_match"

\* C5: detectPlant returns a plant in every case, and when name, alias and
\* fuzzy stage fail it returns the generic record with score 0.1.
C5_NeverNullPlant ==
  Detected =>
    /\ call.plantDetection.plant # Undefined
    /\ call.plantDetection.method = "generic_fallback" =>
         /\ call.plantDetection.plant.id = "generic"
         /\ fEq(call.plantDetection.score, Tenths(1))

\* a result without its timestamp
WithoutTimestamp(r) == [f \in (DOMAIN r) \ {"timestamp"} |-> r[f]]

\* two calls agree in everything but the timestamp
SameOutcome(a, b) ==
  /\ a.returned = b.returned
  /\ a.returned => WithoutTimestamp(a.result) = WithoutTimestamp(b.result)

Truncated(input, n) == SubSeq(input, 1, n) \o <<".", ".", ".">>

\* C7 as stated: a returned result for an input longer than maxInputLength
\* has the first maxInputLength characters and the ellipsis as originalInput,
\* and detection, extraction and scoring ran on that text; a shorter input is
\* passed through unchanged.
C7_Truncation ==
  (Called /\ call.returned) =>
    LET expected == IF Len(call.input) > config.maxInputLength
                    THEN Truncated(call.input, config.maxInputLength)
                    ELSE call.input
    IN  Len(call.input) > config.maxInputLength =>
          /\ "originalInput" \in DOMAIN call.result
          /\ call.result.originalInput = expected
          /\ Len(call.invoked) = 3
          /\ \A i \in DOMAIN call.invoked : call.invoked[i].text = expected

\* C7, amended: for a non-blank input longer than maxInputLength, the result
\* diagnose returns has the first maxInputLength characters and the ellipsis
\* as originalInput, and detection, extraction and scoring ran on that text;
\* a non-blank input of length <= maxInputLength is passed through unchanged.
C7_TruncationNonBlank ==
  Diagnosed =>
    LET expected == IF Len(call.input) > config.maxInputLength
                    THEN Truncated(call.input, config.maxInputLength)
                    ELSE call.input
    IN  /\ call.result.originalInput = expected
        /\ Len(call.invoked) = 3
        /\ call.invoked[1] = [fn |-> "detectPlant", text |-> expected]
        /\ call.invoked[2] = [fn |-> "extractSymptoms", text |-> expected]
        /\ call.invoked[3] = [fn |-> "generateDiagnoses", text |-> expected]

\* C7 witness: a long input was cut and the plant was still found by name
C7_Witness ==
  /\ Diagnosed
  /\ Len(call.input) > config.maxInputLength
  /\ Len(call.result.originalInput) = config.maxInputLength + 3
  /\ call.result.detectionMethod = "plant_name_match"

\* the entries extractSymptoms pushed in the call, before sorting
CallCandidates ==
  matchedSymptoms(plants, CallText, call.plantDetection.plant)

\* C8: extractSymptoms returns at most 10 entries, no two with the same
\* symptom text, by weight descending, and of the candidates with one
\* symptom text it keeps one of the greatest weight.
C8_SymptomsBounded ==
  Diagnosed =>
    LET s == call.symptoms
        c == CallCandidates
    IN  /\ Len(s) <= 10
        /\ \A i, j \in DOMAIN s : i # j => s[i].symptom # s[j].symptom
        /\ \A i, j \in DOMAIN s : i < j => fLe(s[j].weight, s[i].weight)
        /\ \A i \in DOMAIN s : \A k \in DOMAIN c :
             c[k].symptom = s[i].symptom => fLe(c[k].weight, s[i].weight)

\* C8 witness: more than 10 symptom texts were candidates, one of them twice,
\* with different weights among them, and 10 entries were returned
C8_Witness ==
  /\ Diagnosed
  /\ Len(call.symptoms) = 10
  /\ call.symptoms[1].weight # call.symptoms[10].weight
  /\ LET c == CallCandidates
         texts == {c[k].symptom : k \in DOMAIN c}
     IN  Cardinality(texts) > 10 /\ Len(c) > Cardinality(texts)

\* C9: an engine is never constructed from a knowledge base without a
\* generic record (the constructor throws), so no diagnose call fails for
\* the want of one.
C9_FailsFast ==
  /\ phase = "ready" => \E i \in DOMAIN plants : plants[i].id = "generic"
  /\ Called => call.returned

\* the plants that pass the name test on the text
NamePassing(text) ==
  {i \in DOMAIN plants :
     plantNameMatch(plants[i], splitWhitespace(toLowerCase(text)))}

\* the plants an alias of which passes the alias test on the text
AliasPassing(text) == {i \in DOMAIN plants : AliasPasses(text, i)}

\* the fuzzy stage succeeds on the text
FuzzyPasses(text) ==
  LET r == fuseSearch(fuse, text)
  IN  Len(r) > 0 /\ fLt(r[1].score, config.fuzzyThreshold)

\* C10: detectPlant gives the first success of name, alias, fuzzy, fallback:
\* a name match exactly when some plant passes the name test, an alias match
\* (0.9) only when none does, a fuzzy match only when no name and no alias
\* passes, the fallback only when all three fail; the plant of a name or an
\* alias match is the earliest passing plant of the catalog.
C10_StageOrder ==
  Detected =>
    LET d == call.plantDetection
        names == NamePassing(CallText)
        aliases == AliasPassing(CallText)
    IN  /\ d.method \in {"plant_name_match", "alias_match", "fuzzy_match",
                         "generic_fallback"}
        /\ d.method = "plant_name_match" =>
             /\ names # {}
             /\ d.plant = plants[least(names)]
             /\ d.score = One
        /\ d.method = "alias_match" =>
             /\ names = {} /\ aliases # {}
             /\ d.plant = plants[least(aliases)]
             /\ d.score = Tenths(9)
        /\ d.method = "fuzzy_match" =>
             names = {} /\ aliases = {} /\ FuzzyPasses(CallText)
        /\ d.method = "generic_fallback" =>
             names = {} /\ aliases = {} /\ ~FuzzyPasses(CallText)

\* C10 witness: an alias match on a text that passes the alias test of two
\* plants
C10_Witness ==
  /\ Detected
  /\ call.plantDetection.method = "alias_match"
  /\ Cardinality(AliasPassing(CallText)) > 1


\* the plant the call detected
CallPlant == call.plantDetection.plant

\* the lower-cased text the stages of the call worked on
CallLower == toLowerCase(CallText)

\* the words of length > 2 of a symptom that contain, or are contained in,
\* some word of the text
PartialWords(symptomLower, text) ==
  LET symptomWords == splitSpace(symptomLower)
      inputWords == splitSpace(text)
  IN  {i \in DOMAIN symptomWords :
         /\ Len(symptomWords[i]) > 2
         /\ \E j \in DOMAIN inputWords :
              \/ includes(inputWords[j], symptomWords[i])
              \/ includes(symptomWords[i], inputWords[j])}

\* the words of length > 3 of a symptom that the text contains
SubstringWords(symptomLower, text) ==
  LET symptomWords == splitSpace(symptomLower)
  IN  {i \in DOMAIN symptomWords :
         Len(symptomWords[i]) > 3 /\ includes(text, symptomWords[i])}

\* the score, in tenths, of a symptom that is not an exact substring of the
\* text when each matching symptom word counts once
OncePerWordScore(symptom, text) ==
  3 * Cardinality(PartialWords(toLowerCase(symptom), text))
  + 5 * Cardinality(SubstringWords(toLowerCase(symptom), text))
  + 4 * getSemanticMatches(toLowerCase(symptom), text)

\* C11: for a candidate symptom that is not an exact substring of the input,
\* the partial-match contribution is 0.3 for each symptom word of length > 2
\* that matches at least one input word, counted once per symptom word: the
\* symptom is pushed exactly when that score exceeds 0.2, with the score
\* capped at 1.0 as its weight.
C11_PartialOncePerWord ==
  Diagnosed =>
    LET text == CallLower
        pushed == CallCandidates
        pool == allSymptoms(CallPlant.symptoms, findGeneric(plants).symptoms)
    IN  \A k \in DOMAIN pool :
          ~includes(text, toLowerCase(pool[k])) =>
            LET score == OncePerWordScore(pool[k], text)
            IN  IF score > 2
                THEN \E i \in DOMAIN pushed :
                       /\ pushed[i].symptom = pool[k]
                       /\ pushed[i].weight = Tenths(IF score < 10 THEN score ELSE 10)
                ELSE \A i \in DOMAIN pushed : pushed[i].symptom # pool[k]

\* some symptom of the plant, or a word of length > 2 of one, is in the text
EnhancedFound(text, plant) ==
  \E s \in DOMAIN plant.symptoms :
    \/ includes(text, toLowerCase(plant.symptoms[s]))
    \/ \E w \in elements(splitSpace(toLowerCase(plant.symptoms[s]))) :
         Len(w) > 2 /\ includes(text, w)

\* a keyword of the cause, or a word of length > 2 of one, is in the text
KeywordHit(cause, text) ==
  \E k \in DOMAIN cause.keywords :
    \/ includes(text, toLowerCase(cause.keywords[k]))
    \/ \E w \in elements(splitSpace(toLowerCase(cause.keywords[k]))) :
         Len(w) > 2 /\ includes(text, w)

\* C12: generateDiagnoses returns the single no_symptoms diagnosis at
\* confidence 0.2 exactly when the ordinary and the enhanced symptom lists
\* are both empty, with no cause of the plant scored; in every other case
\* no no_symptoms diagnosis is in the result.
C12_NoSymptomsExactly ==
  Diagnosed =>
    LET ds == call.result.diagnoses
    IN  IF call.symptoms = <<>> /\ ~EnhancedFound(CallLower, CallPlant)
        THEN /\ Len(ds) = 1
             /\ ds[1].cause.id = "no_symptoms"
             /\ fEq(ds[1].confidence, Tenths(2))
        ELSE \A i \in DOMAIN ds : ds[i].cause.id # "no_symptoms"

\* C12 witness: no symptom was found although a keyword of a cause of the
\* detected plant is in the input, and the no_symptoms diagnosis was returned
C12_Witness ==
  /\ Diagnosed
  /\ call.symptoms = <<>>
  /\ \E c \in DOMAIN CallPlant.causes : KeywordHit(CallPlant.causes[c], CallLower)
  /\ call.result.diagnoses[1].cause.id = "no_symptoms"

\* the order in which detectGenericCause tries its keyword groups
PatternOrder == <<"underwatering", "overwatering", "light_issues", "pests">>

\* the keyword groups of detectGenericCause of which a keyword is in the text
PatternHits(text) ==
  {p \in DOMAIN patterns :
     \E k \in DOMAIN patterns[p].keywords : includes(text, patterns[p].keywords[k])}

\* the first group in PatternOrder of which a keyword is in the text
FirstPattern(text) ==
  LET hit(n) == \E p \in PatternHits(text) : patterns[p].id = PatternOrder[n]
  IN  PatternOrder[CHOOSE n \in DOMAIN PatternOrder :
                     hit(n) /\ \A m \in 1..(n - 1) : ~hit(m)]

\* the call got past the no_symptoms case of generateDiagnoses
SymptomsFound ==
  Diagnosed /\ (call.symptoms # <<>> \/ EnhancedFound(CallLower, CallPlant))

\* C13: the pattern detector runs only when cause scoring produced no
\* diagnosis; it then yields at most one diagnosis, at confidence 0.4, for
\* the first of underwatering, overwatering, light_issues, pests with a
\* keyword in the input; a list holding a scored cause gets no pattern
\* diagnosis.
C13_PatternLastResort ==
  SymptomsFound =>
    LET ds == call.result.diagnoses
        scored == CallScored
    IN  IF scored # <<>>
        THEN \A i \in DOMAIN ds : ds[i] \in elements(scored)
        ELSE /\ Len(ds) <= 1
             /\ (PatternHits(CallLower) = {}) => ds = <<>>
             /\ (PatternHits(CallLower) # {} /\ config.maxDiagnoses >= 1) =>
                  /\ Len(ds) = 1
                  /\ ds[1].cause.id = FirstPattern(CallLower)
                  /\ fEq(ds[1].confidence, Tenths(4))

\* C13 witness: no cause was scored, keywords of two groups are in the input,
\* the later group's keyword comes first in the text, and the diagnosis of
\* the earlier group was returned
C13_Witness ==
  /\ SymptomsFound
  /\ CallScored = <<>>
  /\ Cardinality(PatternHits(CallLower)) > 1
  /\ SubSeq(CallLower, 1, 3) = <<"w", "e", "t">>
  /\ Len(call.result.diagnoses) = 1
  /\ call.result.diagnoses[1].cause.id = "underwatering"

\* the position of a diagnosis' cause in the cause list of the detected plant
CauseIndex(d) ==
  CHOOSE k \in DOMAIN CallPlant.causes : CallPlant.causes[k] = d.cause

\* diagnosis a goes before diagnosis b: higher confidence, or the same
\* confidence and an earlier place in the plant's cause list
GoesBefore(a, b) ==
  \/ fLt(b.confidence, a.confidence)
  \/ fEq(a.confidence, b.confidence) /\ CauseIndex(a) < CauseIndex(b)

\* C14: the list generateDiagnoses returns is in non-increasing confidence
\* order and holds the maxDiagnoses highest-confidence accepted causes: no
\* dropped accepted cause has a higher confidence than a returned one, and
\* accepted causes of equal confidence keep the order of the plant's causes.
C14_SortedTopCauses ==
  (SymptomsFound /\ CallScored # <<>>) =>
    LET ds == call.result.diagnoses
        scored == CallScored
    IN  /\ Len(ds) = IF Len(scored) < config.maxDiagnoses
                     THEN Len(scored) ELSE config.maxDiagnoses
        /\ \A i \in DOMAIN ds : ds[i] \in elements(scored)
        /\ \A i, j \in DOMAIN ds : i < j => GoesBefore(ds[i], ds[j])
        /\ \A k \in DOMAIN scored :
             scored[k] \notin elements(ds) =>
               \A i \in DOMAIN ds : GoesBefore(ds[i], scored[k])

\* C14 witness: more causes were accepted than maxDiagnoses, and a dropped
\* cause has the confidence of a returned one
C14_Witness ==
  /\ SymptomsFound
  /\ Len(CallScored) > config.maxDiagnoses
  /\ \E k \in DOMAIN CallScored :
       /\ CallScored[k] \notin elements(call.result.diagnoses)
       /\ \E i \in DOMAIN call.result.diagnoses :
            fEq(call.result.diagnoses[i].confidence, CallScored[k].confidence)

\* the confidence generateDiagnoses computes for a cause in the call
CauseConfidence(cause) ==
  calculateEnhancedConfidence(allMatches(cause, CallLower), Len(cause.keywords),
                              call.symptoms,
                              enhancedSymptomDetection(CallLower, CallPlant), config)

\* C15: for a detected plant other than the generic record, a cause without
\* a keyword match (neither a whole keyword nor a keyword word of length > 2
\* is in the lower-cased input) is in no diagnosis; for the generic record
\* every cause is scored, keyword match or not, and is a scored diagnosis
\* when its confidence reaches the threshold.
C15_KeywordGate ==
  SymptomsFound =>
    LET ds == call.result.diagnoses
        scored == CallScored
        causes == CallPlant.causes
    IN  IF CallPlant.id # "generic"
        THEN \A c \in DOMAIN causes :
               ~KeywordHit(causes[c], CallLower) =>
                 /\ \A i \in DOMAIN ds : ds[i].cause # causes[c]
                 /\ \A k \in DOMAIN scored : scored[k].cause # causes[c]
        ELSE \A c \in DOMAIN causes :
               fLe(config.minConfidenceThreshold, CauseConfidence(causes[c])) =>
                 \E k \in DOMAIN scored : scored[k].cause = causes[c]

\* C15 witness: the generic record was detected and a cause of it without a
\* keyword match is in the returned diagnoses
C15_Witness ==
  /\ SymptomsFound
  /\ CallPlant.id = "generic"
  /\ \E i \in DOMAIN call.result.diagnoses :
       /\ call.result.diagnoses[i].cause \in elements(CallPlant.causes)
       /\ ~KeywordHit(call.result.diagnoses[i].cause, CallLower)

\* C16: in every step of any interleaving of addPlant and diagnose calls, an
\* engine that is ready afterwards has a fuzzy index built from its catalog
\* as it is afterwards, and a step of addPlant appends exactly one record at
\* the end of the catalog: every diagnose call starts with an index built
\* from the current catalog.
C16_IndexFollowsCatalog ==
  [][/\ phase' = "ready" => fuse' = initializeFuzzySearch(plants', config')
     /\ adds' # adds =>
          /\ Len(plants') = Len(plants) + 1
          /\ SubSeq(plants', 1, Len(plants)) = plants
          /\ plants'[Len(plants')] \in NewPlants]_vars

\* C16 witness: a diagnose call after an addPlant detected the added plant
C16_Witness ==
  /\ adds > 0
  /\ Detected
  /\ Len(plants) > 1
  /\ CallPlant = plants[Len(plants)]
  /\ CallPlant \in NewPlants

\* C17: with minConfidenceThreshold <= 0.3 the threshold test rejects no
\* cause: the causes the cause loop accepts are exactly those that pass the
\* keyword gate (a keyword match, or any cause of the generic plant), in the
\* order of the plant's causes, each with a confidence of at least 0.3.
C17_LowThresholdAcceptsAll ==
  (SymptomsFound /\ fLe(config.minConfidenceThreshold, Tenths(3))) =>
    LET scored == CallScored
        causes == CallPlant.causes
        gated == SelectSeq(causes, LAMBDA c :
                   KeywordHit(c, CallLower) \/ CallPlant.id = "generic")
    IN  /\ [k \in DOMAIN scored |-> scored[k].cause] = gated
        /\ \A k \in DOMAIN scored : fLe(Tenths(3), scored[k].confidence)

\* C17 witness: under a threshold of at most 0.3 a cause that passed the
\* gate was accepted at exactly the floor of 0.3
C17_Witness ==
  /\ SymptomsFound
  /\ fLe(config.minConfidenceThreshold, Tenths(3))
  /\ \E k \in DOMAIN CallScored : fEq(CallScored[k].confidence, Tenths(3))

\* the lesser of the number of logInteraction calls and 250
ExpectedLogs == IF logged < 250 THEN logged ELSE 250

\* C18: after any sequence of logInteraction calls the in-memory log holds
\* at most 250 entries, and they are those of the most recent calls in call
\* order (the entry of call number n carries timestamp n); without file
\* logging, getLogStats().totalInteractions is the lesser of the number of
\* calls and 250.
C18_MemoryLogBounded ==
  logger # None =>
    /\ Len(logger.memoryLogs) <= 250
    /\ Len(logger.memoryLogs) = ExpectedLogs
    /\ \A i \in DOMAIN logger.memoryLogs :
         logger.memoryLogs[i].timestamp = logged - ExpectedLogs + i - 1
    /\ (stats # None /\ ~(logger.logging.enabled /\ logger.logsDir # Null)) =>
         stats.totalInteractions = ExpectedLogs

\* C18 witness: more than 250 interactions were logged without file logging,
\* the oldest entries were evicted, and the statistics count 250
C18_Witness ==
  /\ logger # None
  /\ ~logger.logging.enabled
  /\ logged > 250
  /\ stats # None
  /\ stats.totalInteractions = 250
  /\ logger.memoryLogs[1].timestamp = logged - 250
====
